---- MODULE Spec2Model ----
(***************************************************************************)
(* Model of main.py of i3-energy-tracker: the price fetcher                *)
(* (get_energi_prices), the per-date cache store (write_prices_file,       *)
(* read_prices_file), the colour mapper (output_background) and the two    *)
(* renderers (output_hour_price, output_day_price).                        *)
(***************************************************************************)
EXTENDS Integers, Sequences, FiniteSets, TLC

VARIABLES
    \* colour mapper: two prices and the stops output_background returned
    price_lo, price_hi, color_lo, color_hi,
    \* cache store, one caller: the data directory and the last call
    files, preFiles, lastOp, lastDate, response, fetches, fetched,
    result, readRaised, raised, stdout, missFetched,
    \* cache store, concurrent callers of read_prices_file for one date
    cfile, pc, site, handle, prices, ret, exc, sawText, everFailed

vars == <<price_lo, price_hi, color_lo, color_hi,
          files, preFiles, lastOp, lastDate, response, fetches, fetched,
          result, readRaised, raised, stdout, missFetched,
          cfile, pc, site, handle, prices, ret, exc, sawText, everFailed>>

colorVars == <<price_lo, price_hi, color_lo, color_hi>>
cacheVars == <<files, preFiles, lastOp, lastDate, response, fetches, fetched,
               result, readRaised, raised, stdout, missFetched>>
concVars  == <<cfile, pc, site, handle, prices, ret, exc, sawText, everFailed>>

(***************************************************************************)
(* Program constants.                                                      *)
(***************************************************************************)
COLORS ==
    << "#00FF00", "#11FF00", "#22FF00", "#33FF00", "#44FF00", "#55FF00",
       "#66FF00", "#77FF00", "#88FF00", "#99FF00", "#AAFF00", "#BBFF00",
       "#CCFF00", "#DDFF00", "#EEFF00", "#FFFF00", "#FFEE00", "#FFDD00",
       "#FFCC00", "#FFBB00", "#FFAA00", "#FF9900", "#FF8800", "#FF7700",
       "#FF6600", "#FF5500", "#FF4400", "#FF3300", "#FF2200", "#FF1100",
       "#FF0000" >>

MIN_COLOR == 250
MAX_COLOR == 700

(***************************************************************************)
(* Bounds of the model.                                                    *)
(***************************************************************************)
\* prices range over MIN_COLOR - PriceMargin .. MAX_COLOR + PriceMargin
PriceMargin == 3
\* the two prices of a monotonicity pair are at most MaxGap apart
MaxGap == 17
\* calendar dates queried
NumDates == 2
\* hourly entries of a DailyPriceSet (24 in production)
NumHours == 2
\* concurrent invocations of the tool
NumProcs == 2

(***************************************************************************)
(* Python list semantics.                                                  *)
(***************************************************************************)
\* seq[i] for a 0-based Python index i: negative indices count from the end
PyIndex(seq, i) ==
    IF i >= 0 /\ i < Len(seq) THEN seq[i + 1]
    ELSE IF i < 0 /\ i >= -Len(seq) THEN seq[Len(seq) + i + 1]
    ELSE "IndexError"

\* seq[a:b] for 0 <= a and b < 0
PySlice(seq, a, b) == SubSeq(seq, a + 1, Len(seq) + b)

(***************************************************************************)
(* Colour mapper.                                                          *)
(***************************************************************************)
output_background_strict(price) ==
    IF price < MIN_COLOR THEN PyIndex(COLORS, 0)
    ELSE IF price > MAX_COLOR THEN PyIndex(COLORS, -1)
    ELSE LET colors == PySlice(COLORS, 1, -2)
             vrange == MAX_COLOR - MIN_COLOR
             vrange_interval == vrange \div Len(colors)
             index == ((price - MIN_COLOR) \div vrange_interval) - 1
         IN  PyIndex(colors, index)

output_background(price) ==
    IF price <= MIN_COLOR THEN PyIndex(COLORS, 0)
    ELSE IF price >= MAX_COLOR THEN PyIndex(COLORS, -1)
    ELSE LET colors == PySlice(COLORS, 1, -2)
             vrange == MAX_COLOR - MIN_COLOR
             vrange_interval == vrange \div Len(colors)
             index == ((price - MIN_COLOR) \div vrange_interval) - 1
         IN  PyIndex(colors, index)

\* position of a stop in the gradient (1 = cheapest, Len(COLORS) = dearest)
Position(c) == CHOOSE i \in 1..Len(COLORS) : COLORS[i] = c

Prices == (MIN_COLOR - PriceMargin)..(MAX_COLOR + PriceMargin)

NoColor == "none"

ColorIdle ==
    /\ price_lo = MIN_COLOR /\ price_hi = MIN_COLOR
    /\ color_lo = NoColor /\ color_hi = NoColor

\* pairs of prices at most MaxGap apart, and the pairs with one price at or
\* below MIN_COLOR and the other at or above MAX_COLOR
ColorInputs ==
    /\ price_lo \in Prices
    /\ price_hi \in {q \in Prices :
                       /\ q > price_lo
                       /\ \/ q <= price_lo + MaxGap
                          \/ price_lo <= MIN_COLOR /\ q >= MAX_COLOR}
    /\ color_lo = NoColor
    /\ color_hi = NoColor

OutputBackgroundLo ==
    /\ color_lo = NoColor
    /\ color_lo' = output_background(price_lo)
    /\ UNCHANGED <<price_lo, price_hi, color_hi>>

OutputBackgroundHi ==
    /\ color_hi = NoColor
    /\ color_hi' = output_background(price_hi)
    /\ UNCHANGED <<price_lo, price_hi, color_lo>>

(***************************************************************************)
(* Data: file/response texts and parsed JSON values.                       *)
(***************************************************************************)
Dates == 1..NumDates
Hours == 0..(NumHours - 1)

\* priceInclVat values the API may publish
PriceChoices == {MIN_COLOR, 450}

\* the "prices" arrays of a response: one priceInclVat per hour, here the
\* days on which every hour costs the same
PriceLists == {[h \in 1..NumHours |-> c] : c \in PriceChoices}

\* a text is a JSON document in some whitespace layout, or no JSON at all
JsonText(ws, ps) == [kind |-> "json", ws |-> ws, prices |-> ps]
EmptyText   == [kind |-> "empty", ws |-> "", prices |-> <<>>]
GarbageText == [kind |-> "garbage", ws |-> "", prices |-> <<>>]
NoFile      == [kind |-> "nofile", ws |-> "", prices |-> <<>>]

\* Python values: None, or the dict {"prices": [{"priceInclVat": p}, ...]}
PyNone   == [isNone |-> TRUE, prices |-> <<>>]
Dict(ps) == [isNone |-> FALSE, prices |-> ps]

NoExc == "none"

\* json.loads: whitespace is dropped; a non-JSON text raises JSONDecodeError
json_loads(text) ==
    IF text.kind = "json"
    THEN [raised |-> NoExc, value |-> Dict(text.prices)]
    ELSE [raised |-> "JSONDecodeError", value |-> PyNone]

\* json.dumps: default separators (", " and ": ")
json_dumps(d) == JsonText("spaced", d.prices)

(***************************************************************************)
(* Price fetcher.                                                          *)
(***************************************************************************)
\* what the network does with a GET while one call into main.py runs: no
\* connection, an error page, a 2xx other than 200, or the price document
Responses ==
    {[error |-> "URLError", status |-> 0, body |-> EmptyText]}
    \cup {[error |-> NoExc, status |-> 500, body |-> GarbageText]}
    \cup {[error |-> NoExc, status |-> 204, body |-> EmptyText]}
    \cup {[error |-> NoExc, status |-> 200, body |-> JsonText(ws, ps)] :
             ws \in {"compact", "spaced"}, ps \in PriceLists}

\* urllib.request.urlopen: a transport failure raises URLError, a status
\* outside 2xx raises HTTPError, any other response is returned
urlopen(resp) ==
    IF resp.error # NoExc THEN resp.error
    ELSE IF ~(200 <= resp.status /\ resp.status < 300) THEN "HTTPError"
    ELSE NoExc

get_energi_prices(resp) ==
    IF urlopen(resp) # NoExc
    THEN [raised |-> urlopen(resp), value |-> PyNone]
    ELSE IF resp.status # 200
    \* building the message reads prices.status_code, which HTTPResponse
    \* does not have: AttributeError is raised in place of NoDataException
    THEN [raised |-> "AttributeError", value |-> PyNone]
    ELSE json_loads(resp.body)

(***************************************************************************)
(* Price cache store.                                                      *)
(***************************************************************************)
\* variant: the response's prices are written without their last entry
write_prices_file_short(fs, d, resp) ==
    LET got == get_energi_prices(resp)
        opened == [fs EXCEPT ![d] = EmptyText]
        cut == Dict(SubSeq(got.value.prices, 1, Len(got.value.prices) - 1))
    IN  IF got.raised # NoExc
        THEN [files |-> opened, raised |-> got.raised, fetched |-> PyNone]
        ELSE [files |-> [opened EXCEPT ![d] = json_dumps(cut)],
              raised |-> NoExc, fetched |-> got.value]

write_prices_file(fs, d, resp) ==
    LET \* open(path, "w") creates or truncates the file before the fetch
        opened == [fs EXCEPT ![d] = EmptyText]
        got == get_energi_prices(resp)
    IN  IF got.raised = "NoDataException"
        THEN [files |-> opened, raised |-> "NoDataException", fetched |-> PyNone]
        ELSE IF got.raised # NoExc
        THEN [files |-> opened, raised |-> got.raised, fetched |-> PyNone]
        ELSE [files |-> [opened EXCEPT ![d] = json_dumps(got.value)],
              raised |-> NoExc, fetched |-> got.value]

\* lines 91-96: the file exists; used is the responses consumed so far
read_existing(fs, d, used, got, resp) ==
    LET parsed == json_loads(fs[d])
        w == write_prices_file(fs, d, resp)
    IN  IF parsed.raised = NoExc
        THEN [files |-> fs, result |-> parsed.value, raised |-> NoExc,
              used |-> used, fetched |-> got]
        ELSE IF w.raised # NoExc
        THEN [files |-> w.files, result |-> PyNone, raised |-> w.raised,
              used |-> Append(used, resp), fetched |-> got]
        ELSE [files |-> w.files, result |-> PyNone, raised |-> NoExc,
              used |-> Append(used, resp), fetched |-> w.fetched]

\* variant: the cache file is refreshed on every call
read_prices_file_refresh(fs, d, resp) ==
    LET w == write_prices_file(fs, d, resp)
    IN  IF w.raised = "NoDataException"
        THEN [files |-> w.files, result |-> PyNone, raised |-> NoExc,
              used |-> <<resp>>, fetched |-> PyNone]
        ELSE IF w.raised # NoExc
        THEN [files |-> w.files, result |-> PyNone, raised |-> w.raised,
              used |-> <<resp>>, fetched |-> PyNone]
        ELSE read_existing(w.files, d, <<resp>>, w.fetched, resp)

read_prices_file(fs, d, resp) ==
    IF fs[d] = NoFile
    THEN LET w == write_prices_file(fs, d, resp)
         IN  IF w.raised = "NoDataException"
             THEN [files |-> w.files, result |-> PyNone, raised |-> NoExc,
                   used |-> <<resp>>, fetched |-> PyNone]
             ELSE IF w.raised # NoExc
             THEN [files |-> w.files, result |-> PyNone, raised |-> w.raised,
                   used |-> <<resp>>, fetched |-> PyNone]
             ELSE read_existing(w.files, d, <<resp>>, w.fetched, resp)
    ELSE read_existing(fs, d, <<>>, PyNone, resp)

(***************************************************************************)
(* Price formatter and renderers.                                          *)
(***************************************************************************)
\* f"{price/100:.2f} DKK": kroner and two digits of oere
format_price(price) ==
    LET abs == IF price < 0 THEN -price ELSE price
    IN  [neg |-> price < 0, kroner |-> abs \div 100, oere |-> abs % 100]

NoPrice == [neg |-> FALSE, kroner |-> 0, oere |-> 0]

\* the fixed error markup of lines 122 and 158
ErrorMarkup ==
    [kind |-> "error", color |-> "#FF0000", hour |-> 0, text |-> NoPrice]
\* the <span> of line 124
HourMarkup(p) ==
    [kind |-> "hour", color |-> output_background(p), hour |-> 0,
     text |-> format_price(p)]
\* the header of line 160 and the per-hour <span> of line 164
DayHeader(d) ==
    [kind |-> "header", color |-> NoColor, hour |-> d, text |-> NoPrice]
DayLine(h, p) ==
    [kind |-> "day", color |-> output_background(p), hour |-> h,
     text |-> format_price(p)]

\* what a renderer leaves behind: the read, the lines printed, the exception
Rendered(rd, out, e) == [read |-> rd, stdout |-> out, raised |-> e]

output_hour_price(fs, d, hour, resp) ==
    LET rd == read_prices_file(fs, d, resp)
        err == IF rd.result = PyNone THEN <<ErrorMarkup>> ELSE <<>>
    IN  IF rd.raised # NoExc THEN Rendered(rd, <<>>, rd.raised)
        \* prices["prices"] on None
        ELSE IF rd.result = PyNone THEN Rendered(rd, err, "TypeError")
        ELSE IF ~(hour < Len(rd.result.prices))
        THEN Rendered(rd, err, "IndexError")
        ELSE Rendered(rd,
                      Append(err, HourMarkup(PyIndex(rd.result.prices, hour))),
                      NoExc)

output_day_price(fs, d, resp) ==
    LET rd == read_prices_file(fs, d, resp)
        err == IF rd.result = PyNone THEN <<ErrorMarkup>> ELSE <<>>
        day == <<DayHeader(d)>> \o
               [i \in 1..Len(rd.result.prices) |->
                    DayLine(i - 1, rd.result.prices[i])]
    IN  IF rd.raised # NoExc THEN Rendered(rd, <<>>, rd.raised)
        \* prices["prices"] on None, before sys.stdout.write
        ELSE IF rd.result = PyNone THEN Rendered(rd, err, "TypeError")
        ELSE Rendered(rd, err \o day, NoExc)

(***************************************************************************)
(* One caller: each action is one whole call into main.py.                 *)
(***************************************************************************)
CacheIdle ==
    /\ files = [d \in Dates |-> NoFile]
    /\ preFiles = [d \in Dates |-> NoFile]
    /\ lastOp = "none"
    /\ lastDate = 1
    /\ response = <<>>
    /\ fetches = 0
    /\ fetched = PyNone
    /\ result = PyNone
    /\ readRaised = NoExc
    /\ raised = NoExc
    /\ stdout = <<>>
    /\ missFetched = [d \in Dates |-> PyNone]

\* the bookkeeping common to the three entry points
Called(op, d, rd, out, e) ==
    /\ preFiles' = files
    /\ files' = rd.files
    /\ lastOp' = op
    /\ lastDate' = d
    /\ response' = rd.used
    /\ fetches' = Len(rd.used)
    /\ fetched' = rd.fetched
    /\ result' = rd.result
    /\ readRaised' = rd.raised
    /\ raised' = e
    /\ stdout' = out
    /\ missFetched' =
         IF files[d] = NoFile /\ ~rd.fetched.isNone
         THEN [missFetched EXCEPT ![d] = rd.fetched]
         ELSE missFetched

ReadPricesFile ==
    \E d \in Dates, resp \in Responses :
        LET rd == read_prices_file(files, d, resp)
        IN  Called("read_prices_file", d, rd, <<>>, rd.raised)

OutputHourPrice ==
    \E d \in Dates, hour \in Hours, resp \in Responses :
        LET r == output_hour_price(files, d, hour, resp)
        IN  Called("output_hour_price", d, r.read, r.stdout, r.raised)

OutputDayPrice ==
    \E d \in Dates, resp \in Responses :
        LET r == output_day_price(files, d, resp)
        IN  Called("output_day_price", d, r.read, r.stdout, r.raised)

(***************************************************************************)
(* Concurrent invocations: read_prices_file for one date, statement by     *)
(* statement.  All texts json.dumps produces here have the same length,    *)
(* so a flush at offset 0 replaces the file's content.                     *)
(***************************************************************************)
Procs == 1..NumProcs

ConcIdle ==
    /\ cfile = NoFile
    /\ pc = [p \in Procs |-> "idle"]
    /\ site = [p \in Procs |-> "none"]
    /\ handle = [p \in Procs |-> NoFile]
    /\ prices = [p \in Procs |-> PyNone]
    /\ ret = [p \in Procs |-> PyNone]
    /\ exc = [p \in Procs |-> NoExc]
    /\ sawText = [p \in Procs |-> NoFile]
    /\ everFailed = FALSE

\* a new process of the tool starts read_prices_file
Invoke(p) ==
    /\ pc[p] \in {"idle", "done"}
    /\ pc' = [pc EXCEPT ![p] = "exists"]
    /\ site' = [site EXCEPT ![p] = "none"]
    /\ handle' = [handle EXCEPT ![p] = NoFile]
    /\ prices' = [prices EXCEPT ![p] = PyNone]
    /\ ret' = [ret EXCEPT ![p] = PyNone]
    /\ exc' = [exc EXCEPT ![p] = NoExc]
    /\ sawText' = [sawText EXCEPT ![p] = NoFile]
    /\ UNCHANGED <<cfile, everFailed>>

\* line 84: os.path.exists(path)
Exists(p) ==
    /\ pc[p] = "exists"
    /\ IF cfile = NoFile
       THEN /\ pc' = [pc EXCEPT ![p] = "w_open"]
            /\ site' = [site EXCEPT ![p] = "miss"]
       ELSE /\ pc' = [pc EXCEPT ![p] = "r_open"]
            /\ UNCHANGED site
    /\ UNCHANGED <<cfile, handle, prices, ret, exc, sawText, everFailed>>

\* line 65: open(path, "w") creates or truncates the file
WOpen(p) ==
    /\ pc[p] = "w_open"
    /\ cfile' = EmptyText
    /\ handle' = [handle EXCEPT ![p] = EmptyText]
    /\ pc' = [pc EXCEPT ![p] = "w_fetch"]
    /\ UNCHANGED <<site, prices, ret, exc, sawText, everFailed>>

\* lines 67, 69-70 and the handlers of lines 88-89: the fetch; on an
\* exception the with-block closes the file with nothing written to it
WFetch(p) ==
    /\ pc[p] = "w_fetch"
    /\ \E resp \in Responses :
         LET got == get_energi_prices(resp)
         IN  IF got.raised = NoExc
             THEN /\ prices' = [prices EXCEPT ![p] = got.value]
                  /\ pc' = [pc EXCEPT ![p] = "w_write"]
                  /\ UNCHANGED <<exc, everFailed>>
             ELSE /\ pc' = [pc EXCEPT ![p] = "done"]
                  /\ exc' = [exc EXCEPT ![p] =
                               IF got.raised = "NoDataException"
                                  /\ site[p] = "miss"
                               THEN NoExc ELSE got.raised]
                  /\ everFailed' = TRUE
                  /\ UNCHANGED prices
    /\ UNCHANGED <<cfile, site, handle, ret, sawText>>

\* line 68: file.write(json.dumps(prices)) fills the handle's buffer
WWrite(p) ==
    /\ pc[p] = "w_write"
    /\ handle' = [handle EXCEPT ![p] = json_dumps(prices[p])]
    /\ pc' = [pc EXCEPT ![p] = "w_close"]
    /\ UNCHANGED <<cfile, site, prices, ret, exc, sawText, everFailed>>

\* end of the with-block of line 65: the buffer is flushed, the file closed;
\* line 87 goes on to read the file, line 96 returns None
WClose(p) ==
    /\ pc[p] = "w_close"
    /\ cfile' = handle[p]
    /\ pc' = [pc EXCEPT ![p] = IF site[p] = "miss" THEN "r_open" ELSE "done"]
    /\ UNCHANGED <<site, handle, prices, ret, exc, sawText, everFailed>>

\* line 91: open(path, "r")
ROpen(p) ==
    /\ pc[p] = "r_open"
    /\ pc' = [pc EXCEPT ![p] = "r_read"]
    /\ UNCHANGED <<cfile, site, handle, prices, ret, exc, sawText, everFailed>>

\* lines 93-95: file.read() and json.loads
RRead(p) ==
    /\ pc[p] = "r_read"
    /\ sawText' = [sawText EXCEPT ![p] = cfile]
    /\ IF json_loads(cfile).raised = NoExc
       THEN /\ ret' = [ret EXCEPT ![p] = json_loads(cfile).value]
            /\ pc' = [pc EXCEPT ![p] = "done"]
            /\ UNCHANGED site
       ELSE /\ site' = [site EXCEPT ![p] = "corrupt"]
            /\ pc' = [pc EXCEPT ![p] = "w_open"]
            /\ UNCHANGED ret
    /\ UNCHANGED <<cfile, handle, prices, exc, everFailed>>

(***************************************************************************)
(* Specifications.                                                         *)
(***************************************************************************)
\* the colour mapper applied to pairs of prices
NextColor ==
    \/ OutputBackgroundLo /\ UNCHANGED <<cacheVars, concVars>>
    \/ OutputBackgroundHi /\ UNCHANGED <<cacheVars, concVars>>

InitColor == ColorInputs /\ CacheIdle /\ ConcIdle

SpecColor == InitColor /\ [][NextColor]_vars

\* one caller issuing whole calls, one after the other
Init == ColorIdle /\ CacheIdle /\ ConcIdle

Next ==
    \/ ReadPricesFile /\ UNCHANGED <<colorVars, concVars>>
    \/ OutputHourPrice /\ UNCHANGED <<colorVars, concVars>>
    \/ OutputDayPrice /\ UNCHANGED <<colorVars, concVars>>

Spec == Init /\ [][Next]_vars

\* processes of the tool running side by side
NextConc ==
    \E p \in Procs :
        \/ Invoke(p) /\ UNCHANGED <<colorVars, cacheVars>>
        \/ Exists(p) /\ UNCHANGED <<colorVars, cacheVars>>
        \/ WOpen(p) /\ UNCHANGED <<colorVars, cacheVars>>
        \/ WFetch(p) /\ UNCHANGED <<colorVars, cacheVars>>
        \/ WWrite(p) /\ UNCHANGED <<colorVars, cacheVars>>
        \/ WClose(p) /\ UNCHANGED <<colorVars, cacheVars>>
        \/ ROpen(p) /\ UNCHANGED <<colorVars, cacheVars>>
        \/ RRead(p) /\ UNCHANGED <<colorVars, cacheVars>>

SpecConc == Init /\ [][NextConc]_vars

(***************************************************************************)
(* Properties of the colour mapper (SpecColor).                            *)
(***************************************************************************)
Colored == color_lo # NoColor /\ color_hi # NoColor

\* C4: for prices p < q strictly inside (MIN_COLOR, MAX_COLOR) the stop
\* returned for p is not later in the gradient than the stop returned for q
C4_Monotonic ==
    (Colored /\ MIN_COLOR < price_lo /\ price_hi < MAX_COLOR)
        => Position(color_lo) <= Position(color_hi)

\* C8: a price at or below MIN_COLOR gets the first stop of the gradient, a
\* price at or above MAX_COLOR the last one
C8_Extremes ==
    /\ (color_lo # NoColor /\ price_lo <= MIN_COLOR) => color_lo = COLORS[1]
    /\ (color_lo # NoColor /\ price_lo >= MAX_COLOR)
           => color_lo = COLORS[Len(COLORS)]
    /\ (color_hi # NoColor /\ price_hi <= MIN_COLOR) => color_hi = COLORS[1]
    /\ (color_hi # NoColor /\ price_hi >= MAX_COLOR)
           => color_hi = COLORS[Len(COLORS)]

\* both extremes have been mapped: MIN_COLOR itself and a price above MAX_COLOR
C8_Witness ==
    /\ price_lo = MIN_COLOR /\ color_lo = COLORS[1]
    /\ price_hi > MAX_COLOR /\ color_hi = COLORS[Len(COLORS)]

\* the stop the interior rule names for price p: the gradient without its
\* first and last stop, L its length, interval = (MAX_COLOR - MIN_COLOR) \div L,
\* index = (p - MIN_COLOR) \div interval - 1
IndexInPalette(p) ==
    LET L == Len(COLORS) - 2
        interval == (MAX_COLOR - MIN_COLOR) \div L
    IN  ((p - MIN_COLOR) \div interval) - 1

\* C9: a price strictly inside (MIN_COLOR, MAX_COLOR) gets the stop at
\* IndexInPalette of the gradient without its first and last stop, and that
\* index lies within the palette
C9_InteriorIndex ==
    (color_lo # NoColor /\ MIN_COLOR < price_lo /\ price_lo < MAX_COLOR)
        => /\ IndexInPalette(price_lo) \in 0..(Len(COLORS) - 3)
           /\ color_lo = SubSeq(COLORS, 2, Len(COLORS) - 1)
                                [IndexInPalette(price_lo) + 1]

(***************************************************************************)
(* Properties of the cache store and the renderers, one caller (Spec).     *)
(***************************************************************************)
Parses(text) == json_loads(text).raised = NoExc
Corrupt(text) == text # NoFile /\ ~Parses(text)
ReadCalled == lastOp = "read_prices_file"
\* the call issued a GET that met a transport failure or a status other
\* than 200
FetchFailed ==
    /\ fetches >= 1
    /\ response[1].error # NoExc \/ response[1].status # 200

\* C1: a read of a date whose file exists but does not parse fetches exactly
\* once and, when that fetch succeeds, stores the fetched data under the
\* date and returns it
C1_CorruptRefetch ==
    (ReadCalled /\ Corrupt(preFiles[lastDate]))
        => /\ fetches = 1
           /\ ~fetched.isNone
                 => /\ Parses(files[lastDate])
                    /\ json_loads(files[lastDate]).value = fetched
                    /\ raised = NoExc
                    /\ result = fetched

\* C2: a read of an uncached date whose fetch fails returns None and lets no
\* exception escape
C2_FetchFailureIsSoft ==
    (ReadCalled /\ preFiles[lastDate] = NoFile /\ FetchFailed)
        => /\ raised = NoExc
           /\ result = PyNone

\* C3: a renderer whose read returned None prints the error markup, nothing
\* else, and finishes without an exception
C3_ErrorMarkupOnly ==
    (lastOp \in {"output_hour_price", "output_day_price"}
        /\ readRaised = NoExc /\ result = PyNone)
        => /\ stdout = <<ErrorMarkup>>
           /\ raised = NoExc

\* C6: a file that holds valid price data is never changed by a later call,
\* and a call for its date returns that data without a fetch
C6_ValidIsPermanent ==
    lastOp # "none" =>
        \A d \in Dates :
            Parses(preFiles[d]) =>
                /\ files[d] = preFiles[d]
                /\ d = lastDate
                      => /\ fetches = 0
                         /\ readRaised = NoExc
                         /\ result = json_loads(preFiles[d]).value

\* a call for a date with a valid file, while another date's fetch had failed
C6_Witness ==
    /\ lastOp # "none"
    /\ Parses(preFiles[lastDate])
    /\ result = json_loads(preFiles[lastDate]).value
    /\ \E d \in Dates : files[d] = EmptyText

\* C7: once a read of an uncached date has fetched successfully, that read
\* and every later read of the date return the data the fetcher returned,
\* and the file parses to it
C7_RoundTrip ==
    \A d \in Dates :
        ~missFetched[d].isNone
            => /\ Parses(files[d])
               /\ json_loads(files[d]).value = missFetched[d]
               /\ (lastOp # "none" /\ lastDate = d)
                     => /\ readRaised = NoExc
                        /\ result = missFetched[d]

\* a read of an uncached date whose response body is not in json.dumps'
\* layout has returned
C7_Witness ==
    /\ ReadCalled
    /\ preFiles[lastDate] = NoFile
    /\ fetches = 1
    /\ response[1].body.kind = "json"
    /\ response[1].body.ws = "compact"
    /\ result = Dict(response[1].body.prices)
    /\ missFetched[lastDate] = result

\* C10: every file of the data directory holds complete parseable price data
C10_FilesAreComplete ==
    \A d \in Dates : files[d] # NoFile => Parses(files[d])

(***************************************************************************)
(* Properties of concurrent invocations (SpecConc).                        *)
(***************************************************************************)
\* C5: as long as no fetch has failed, a process that found the file and
\* read it has read the complete text of a finished write
C5_NoPartialRead ==
    ~everFailed =>
        \A p \in Procs : sawText[p] # NoFile => sawText[p].kind = "json"
====
